---------------------------- MODULE Spec2Model ----------------------------
(***************************************************************************)
(* A model of the whiteboard widget WhiteboardKonvaModal and its           *)
(* GalleryBar: the normalized shape store, the pointer handlers, image     *)
(* placement, the image-load aspect correction and the sizing of the       *)
(* drawing surface.                                                        *)
(*                                                                         *)
(* JavaScript numbers are modelled by exact rationals [n |-> _, d |-> _]   *)
(* in lowest terms with d > 0, so that division and multiplication are     *)
(* computed, not assumed to cancel.                                        *)
(***************************************************************************)
EXTENDS Integers, Sequences, FiniteSets, TLC

(***************************************************************************)
(* Bounds of the model.                                                    *)
(***************************************************************************)
MaxShapes == 2
MaxPoints == 2
MaxPending == 1

(***************************************************************************)
(* JavaScript number arithmetic, as exact rationals.                       *)
(***************************************************************************)
Abs(a) == IF a < 0 THEN -a ELSE a

RECURSIVE Gcd(_, _)
Gcd(a, b) == IF b = 0 THEN a ELSE Gcd(b, a % b)

Rat(n, d) ==
    LET g == Gcd(Abs(n), d)
    IN  [n |-> n \div g, d |-> d \div g]

Num(i) == [n |-> i, d |-> 1]

RMul(a, b) == Rat(a.n * b.n, a.d * b.d)

RDiv(a, b) ==
    IF b.n > 0 THEN Rat(a.n * b.d, a.d * b.n)
               ELSE Rat(-(a.n * b.d), a.d * (-b.n))

RSub(a, b) == Rat(a.n * b.d - b.n * a.d, a.d * b.d)

RAbs(a) == [n |-> Abs(a.n), d |-> a.d]

RLe(a, b) == a.n * b.d <= b.n * a.d

RLt(a, b) == a.n * b.d < b.n * a.d

RMax(a, b) == IF RLe(a, b) THEN b ELSE a

RMin(a, b) == IF RLe(a, b) THEN a ELSE b

IMax(a, b) == IF a >= b THEN a ELSE b

IMin(a, b) == IF a <= b THEN a ELSE b

(***************************************************************************)
(* Types & Utils                                                           *)
(***************************************************************************)
Pen == "pen"
Highlight == "Highlight"
Eraser == "eraser"
Cursor == "cursor"

IsStrokeTool(t) == t = Pen \/ t = Highlight \/ t = Eraser

\* clamp without its upper bound.
clampMutC1(v, min, max) == RMax(min, v)

clamp(v, min, max) == RMax(min, RMin(max, v))

denormX(W, nx) == RMul(nx, Num(W))

denormY(H, ny) == RMul(ny, Num(H))

RECURSIVE ratioForLine(_, _, _)
ratioForLine(W, H, normalized) ==
    IF Len(normalized) < 2 THEN <<>>
    ELSE <<denormX(W, normalized[1]), denormY(H, normalized[2])>>
         \o ratioForLine(W, H, SubSeq(normalized, 3, Len(normalized)))

FOOTER_HEIGHT == 56
PADDING_H == 40
PADDING_V == 40
NAV_BAR_H == 40
GALLERY_H == 96
MIN_WIDTH == 280
MIN_HEIGHT == 240

Tolerance == Rat(1, 1000)

InitialImageSize == Rat(1, 4)

(***************************************************************************)
(* The environment: viewport sizes, resize targets, pointer positions,     *)
(* image sources with the intrinsic size the browser decodes for each.     *)
(***************************************************************************)
\* getPointerPosition() returning null.
NoPos == [null |-> TRUE]

Pos(x, y) == [x |-> Num(x), y |-> Num(y)]

WindowSizes == {<<880, 872>>, <<680, 572>>}

ResizeTargets == {<<2000, 2000>>, <<600, 436>>}

PointerPositions == {Pos(200, 150), Pos(-20, 2000)}

GallerySrc == "https://picsum.photos/seed/101/240/160"

PortraitDataUrl == "data:image/png;portrait"

Srcs == {GallerySrc, PortraitDataUrl}

naturalSize(src) ==
    IF src = GallerySrc THEN [width |-> 240, height |-> 160]
                        ELSE [width |-> 150, height |-> 600]

(***************************************************************************)
(* The state of the mounted widget.                                        *)
(*   windowW, windowH  the viewport size held by useWindowSize             *)
(*   size              the modal's size {width, height}                    *)
(*   shapes            the shape store                                     *)
(*   toolActive        the active tool                                     *)
(*   isDrawing         isDrawingRef.current                                *)
(*   imgEl             the indices of the images whose RenderImage holds   *)
(*                     a loaded element (useImageEl's image is not null)   *)
(*   effectOf          the index of the image whose aspect-correction      *)
(*                     effect is due after its render, 0 when none is      *)
(*   pendingReads      the FileReader reads in flight, each with the drop  *)
(*                     event and the surface size its onload closes over   *)
(*   session           history: the index of the stroke that the last      *)
(*                     pointer-down since the last pointer-up appended,    *)
(*                     0 when there is none                                *)
(*   sessionPoints     history: the normalized seed point of that stroke   *)
(*                     followed by the points of the moves handled since   *)
(* The stage (stageRef.current) is mounted for the widget's lifetime.      *)
(***************************************************************************)
VARIABLES windowW, windowH, size, shapes, toolActive, isDrawing, imgEl,
          effectOf, pendingReads, session, sessionPoints

vars == <<windowW, windowH, size, shapes, toolActive, isDrawing, imgEl,
          effectOf, pendingReads, session, sessionPoints>>

baseWidthOf(w) == IMax(MIN_WIDTH, w - PADDING_H * 2)

baseHeightOf(h) == IMax(MIN_HEIGHT, h - FOOTER_HEIGHT - PADDING_V * 2)

baseWidth == baseWidthOf(windowW)

baseHeight == baseHeightOf(windowH)

stageHOf(sz) == IMax(0, sz.height - NAV_BAR_H - GALLERY_H)

stageWOf(sz) == sz.width

stageH == stageHOf(size)

stageW == stageWOf(size)

Init ==
    /\ windowW = 880
    /\ windowH = 872
    /\ size = [width |-> baseWidthOf(880), height |-> baseHeightOf(872)]
    /\ shapes = <<>>
    /\ toolActive = Pen
    /\ isDrawing = FALSE
    /\ imgEl = {}
    /\ effectOf = 0
    /\ pendingReads = {}
    /\ session = 0
    /\ sessionPoints = <<>>

(***************************************************************************)
(* The state updaters handed to setShapes, as functions of the previous    *)
(* store.                                                                  *)
(***************************************************************************)
normalizePos(pos, W, H) ==
    [x |-> clamp(RDiv(pos.x, Num(W)), Num(0), Num(1)),
     y |-> clamp(RDiv(pos.y, Num(H)), Num(0), Num(1))]

colorOf(tool) == IF tool = Highlight THEN "rgba(255,255,0,0.5)" ELSE "#222"

strokeOf(tool) == IF tool = Eraser THEN 24 ELSE 3

newLineShape(tool, pos, W, H) ==
    LET n == normalizePos(pos, W, H)
    IN  [tool |-> tool, color |-> colorOf(tool), stroke |-> strokeOf(tool),
         points |-> <<n.x, n.y>>]

\* The onMouseMove updater putting the new point before the earlier ones.
appendPointMutC7(prev, pos, W, H) ==
    IF Len(prev) = 0 THEN prev
    ELSE LET last == prev[Len(prev)]
         IN  IF IsStrokeTool(last.tool)
             THEN LET n == normalizePos(pos, W, H)
                  IN  [prev EXCEPT ![Len(prev)] =
                          [last EXCEPT !.points = <<n.x, n.y>> \o last.points]]
             ELSE prev

appendPoint(prev, pos, W, H) ==
    IF Len(prev) = 0 THEN prev
    ELSE LET last == prev[Len(prev)]
         IN  IF IsStrokeTool(last.tool)
             THEN LET n == normalizePos(pos, W, H)
                  IN  [prev EXCEPT ![Len(prev)] =
                          [last EXCEPT !.points = last.points \o <<n.x, n.y>>]]
             ELSE prev

\* dropAtPointer putting the new image before the earlier shapes.
dropAtPointerMutC9(prev, src, pos, W, H) ==
    IF pos = NoPos THEN prev
    ELSE LET n == normalizePos(pos, W, H)
         IN  <<[tool |-> "Image", src |-> src, x |-> n.x, y |-> n.y,
                width |-> InitialImageSize, height |-> InitialImageSize]>>
             \o prev

\* dropAtPointer storing the initial size in pixels instead of as fractions.
dropAtPointerMutC2(prev, src, pos, W, H) ==
    IF pos = NoPos THEN prev
    ELSE LET n == normalizePos(pos, W, H)
         IN  Append(prev, [tool |-> "Image", src |-> src, x |-> n.x, y |-> n.y,
                           width |-> RMul(InitialImageSize, Num(W)),
                           height |-> RMul(InitialImageSize, Num(H))])

dropAtPointer(prev, src, pos, W, H) ==
    IF pos = NoPos THEN prev
    ELSE LET n == normalizePos(pos, W, H)
         IN  Append(prev, [tool |-> "Image", src |-> src, x |-> n.x, y |-> n.y,
                           width |-> InitialImageSize,
                           height |-> InitialImageSize])

\* The object spread {...obj, ...upd}.
Spread(obj, upd) ==
    [f \in DOMAIN obj \cup DOMAIN upd |->
        IF f \in DOMAIN upd THEN upd[f] ELSE obj[f]]

commitPos(prev, index, nx, ny) ==
    [prev EXCEPT ![index] = Spread(prev[index], [x |-> nx, y |-> ny])]

commitHeightByAspect(prev, index, nh) ==
    [prev EXCEPT ![index] = Spread(prev[index], [height |-> nh])]

(***************************************************************************)
(* RenderImageBase: the pixel geometry of an image, and the normalized     *)
(* height its aspect-correction effect computes.                           *)
(***************************************************************************)
desiredHByAspect(shape, loaded, W, H) ==
    LET targetW == RMul(shape.width, Num(W))
        el == naturalSize(shape.src)
    IN  IF loaded THEN RMul(targetW, RDiv(Num(el.height), Num(el.width)))
                  ELSE RMul(shape.height, Num(H))

\* RenderImageBase anchoring the image at its top-left corner (no offset).
RenderImageBaseMutC6(shape, loaded, W, H) ==
    LET targetW == RMul(shape.width, Num(W))
        targetH == desiredHByAspect(shape, loaded, W, H)
    IN  [x |-> RMul(shape.x, Num(W)), y |-> RMul(shape.y, Num(H)),
         width |-> targetW, height |-> targetH,
         offsetX |-> Num(0), offsetY |-> Num(0)]

RenderImageBase(shape, loaded, W, H) ==
    LET targetW == RMul(shape.width, Num(W))
        targetH == desiredHByAspect(shape, loaded, W, H)
    IN  [x |-> RMul(shape.x, Num(W)), y |-> RMul(shape.y, Num(H)),
         width |-> targetW, height |-> targetH,
         offsetX |-> RDiv(targetW, Num(2)), offsetY |-> RDiv(targetH, Num(2))]

\* The effect's nh taken against the surface width instead of its height.
aspectHeightMutC5(shape, W, H) ==
    RDiv(desiredHByAspect(shape, TRUE, W, H), Num(W))

aspectHeight(shape, W, H) == RDiv(desiredHByAspect(shape, TRUE, W, H), Num(H))

needsCommit(shape, W, H) ==
    RLt(Tolerance, RAbs(RSub(aspectHeight(shape, W, H), shape.height)))

\* The images the image layer renders a RenderImage for.
ImageIndices == {i \in 1..Len(shapes) : shapes[i].tool = "Image"}

(***************************************************************************)
(* The handlers.  RenderImage is created anew by every render of the       *)
(* modal, so every such render remounts the images: their loaded elements  *)
(* are dropped and each asset loads again.                                 *)
(***************************************************************************)
Remount == imgEl' = {}

onMouseDown(pos) ==
    IF ~IsStrokeTool(toolActive)
    THEN UNCHANGED vars
    ELSE /\ isDrawing' = TRUE
         /\ IF pos = NoPos
            THEN UNCHANGED <<shapes, imgEl, session, sessionPoints>>
            ELSE /\ Len(shapes) < MaxShapes
                 /\ shapes' = Append(shapes,
                                 newLineShape(toolActive, pos, stageW, stageH))
                 /\ session' = Len(shapes) + 1
                 /\ sessionPoints' =
                        newLineShape(toolActive, pos, stageW, stageH).points
                 /\ Remount
         /\ UNCHANGED <<windowW, windowH, size, toolActive, effectOf,
                        pendingReads>>

\* onMouseMove without the test of isDrawingRef.current.
onMouseMoveMutC12(pos) ==
    IF pos = NoPos
    THEN UNCHANGED vars
    ELSE LET next == appendPoint(shapes, pos, stageW, stageH)
         IN  /\ \A i \in 1..Len(next) :
                    IsStrokeTool(next[i].tool) =>
                        Len(next[i].points) <= 2 * MaxPoints
             /\ shapes' = next
             /\ IF next = shapes THEN UNCHANGED imgEl ELSE Remount
             /\ IF session = 0
                THEN UNCHANGED sessionPoints
                ELSE /\ Len(sessionPoints) < 2 * MaxPoints
                     /\ sessionPoints' = sessionPoints \o
                            <<normalizePos(pos, stageW, stageH).x,
                              normalizePos(pos, stageW, stageH).y>>
             /\ UNCHANGED <<windowW, windowH, size, toolActive, isDrawing,
                            effectOf, pendingReads, session>>

onMouseMove(pos) ==
    IF ~isDrawing \/ pos = NoPos
    THEN UNCHANGED vars
    ELSE LET next == appendPoint(shapes, pos, stageW, stageH)
         IN  /\ \A i \in 1..Len(next) :
                    IsStrokeTool(next[i].tool) =>
                        Len(next[i].points) <= 2 * MaxPoints
             /\ shapes' = next
             /\ IF next = shapes THEN UNCHANGED imgEl ELSE Remount
             /\ IF session = 0
                THEN UNCHANGED sessionPoints
                ELSE /\ Len(sessionPoints) < 2 * MaxPoints
                     /\ sessionPoints' = sessionPoints \o
                            <<normalizePos(pos, stageW, stageH).x,
                              normalizePos(pos, stageW, stageH).y>>
             /\ UNCHANGED <<windowW, windowH, size, toolActive, isDrawing,
                            effectOf, pendingReads, session>>

onMouseUp ==
    /\ isDrawing' = FALSE
    /\ session' = 0
    /\ sessionPoints' = <<>>
    /\ UNCHANGED <<windowW, windowH, size, shapes, toolActive, imgEl,
                   effectOf, pendingReads>>

setToolActive(t) ==
    /\ toolActive' = t
    /\ IF t = toolActive THEN UNCHANGED imgEl ELSE Remount
    /\ UNCHANGED <<windowW, windowH, size, shapes, isDrawing, effectOf,
                   pendingReads, session, sessionPoints>>

\* Placement through the dropAtPointer closed over the surface size W x H.
place(src, pos, W, H) ==
    LET next == dropAtPointer(shapes, src, pos, W, H)
    IN  /\ Len(next) <= MaxShapes
        /\ shapes' = next
        /\ IF next = shapes THEN UNCHANGED imgEl ELSE Remount

NoDataTransfer == [null |-> TRUE]

NoFile == [undefined |-> TRUE]

\* A MIME type "t/s" is the pair <<t, s>>.
Files == {NoFile,
          [type |-> <<"image", "png">>, result |-> PortraitDataUrl],
          [type |-> <<"text", "plain">>, result |-> "data:text/plain;x"]}

DataTransfers ==
    {NoDataTransfer} \cup [text : {"", GallerySrc}, file : Files]

\* f.type.startsWith("image/") accepting every type.
startsWithImageMutC10(type) == TRUE

\* f.type.startsWith("image/")
startsWithImage(type) == type[1] = "image"

\* e is the drop event's pointer, pos what getPointerPosition() gives for it.
onDrop(ds, e, pos) ==
    IF ds = NoDataTransfer
    THEN UNCHANGED vars
    ELSE IF ds.text # ""
    THEN /\ place(ds.text, pos, stageW, stageH)
         /\ UNCHANGED <<windowW, windowH, size, toolActive, isDrawing,
                        effectOf, pendingReads, session,
                        sessionPoints>>
    ELSE IF ds.file # NoFile /\ startsWithImage(ds.file.type)
    THEN /\ Cardinality(pendingReads) < MaxPending
         /\ pendingReads' = pendingReads \cup
                {[result |-> ds.file.result, e |-> e,
                  W |-> stageW, H |-> stageH]}
         /\ UNCHANGED <<windowW, windowH, size, shapes, toolActive, isDrawing,
                        imgEl, effectOf, session,
                        sessionPoints>>
    ELSE UNCHANGED vars

\* reader.onload of a dropped file: the placement captured at drop time.
readerOnload(r, pos) ==
    /\ r \in pendingReads
    /\ place(r.result, pos, r.W, r.H)
    /\ pendingReads' = pendingReads \ {r}
    /\ UNCHANGED <<windowW, windowH, size, toolActive, isDrawing, effectOf,
                   session, sessionPoints>>

NoSrc == "null"

onMobileDrop(src, pos) ==
    IF src = NoSrc
    THEN UNCHANGED vars
    ELSE /\ place(src, pos, stageW, stageH)
         /\ UNCHANGED <<windowW, windowH, size, toolActive, isDrawing,
                        effectOf, pendingReads, session,
                        sessionPoints>>

NotAString == "null"

centerPos(W, H) == [x |-> RDiv(Num(W), Num(2)), y |-> RDiv(Num(H), Num(2))]

dropImageFromUpload(dataUrl) ==
    IF dataUrl = NotAString
    THEN UNCHANGED vars
    ELSE /\ place(dataUrl, centerPos(stageW, stageH), stageW, stageH)
         /\ UNCHANGED <<windowW, windowH, size, toolActive, isDrawing,
                        effectOf, pendingReads, session,
                        sessionPoints>>

\* img.onload of image i: setImage, and the render of RenderImage with the
\* loaded element.
imageOnload(i) ==
    /\ i \in ImageIndices
    /\ i \notin imgEl
    /\ imgEl' = imgEl \cup {i}
    /\ effectOf' = i
    /\ UNCHANGED <<windowW, windowH, size, shapes, toolActive, isDrawing,
                   pendingReads, session,
                   sessionPoints>>

\* The aspect-correction effect of that render.  React runs it before it
\* processes any later update, so no other handler's update comes between.
aspectEffect ==
    /\ effectOf # 0
    /\ IF needsCommit(shapes[effectOf], stageW, stageH)
       THEN /\ shapes' = commitHeightByAspect(shapes, effectOf,
                             aspectHeight(shapes[effectOf], stageW, stageH))
            /\ Remount
       ELSE UNCHANGED <<shapes, imgEl>>
    /\ effectOf' = 0
    /\ UNCHANGED <<windowW, windowH, size, toolActive, isDrawing,
                   pendingReads, session,
                   sessionPoints>>

handleDragEnd(i, pos) ==
    /\ i \in ImageIndices
    /\ LET n == normalizePos(pos, stageW, stageH)
       IN  shapes' = commitPos(shapes, i, n.x, n.y)
    /\ Remount
    /\ UNCHANGED <<windowW, windowH, size, toolActive, isDrawing,
                   effectOf, pendingReads, session,
                   sessionPoints>>

\* A viewport resize, with the effect that clamps the size to the new base.
onResize(w, h) ==
    /\ windowW' = w
    /\ windowH' = h
    /\ size' = [width |-> IMin(size.width, baseWidthOf(w)),
                height |-> IMin(size.height, baseHeightOf(h))]
    /\ Remount
    /\ UNCHANGED <<shapes, toolActive, isDrawing, effectOf, pendingReads,
                   session, sessionPoints>>

\* onResizeStop without the lower clamp.
onResizeStopMutC11(newW, newH) ==
    /\ size' = [width |-> IMin(baseWidth, newW),
                height |-> IMin(baseHeight, newH)]
    /\ Remount
    /\ UNCHANGED <<windowW, windowH, shapes, toolActive, isDrawing,
                   effectOf, pendingReads, session, sessionPoints>>

onResizeStop(newW, newH) ==
    /\ size' = [width |-> IMax(MIN_WIDTH, IMin(baseWidth, newW)),
                height |-> IMax(MIN_HEIGHT, IMin(baseHeight, newH))]
    /\ Remount
    /\ UNCHANGED <<windowW, windowH, shapes, toolActive, isDrawing,
                   effectOf, pendingReads, session,
                   sessionPoints>>

\* No aspect-correction effect is waiting to run.
Idle == effectOf = 0

Next ==
    \/ aspectEffect
    \/ Idle /\ \E pos \in PointerPositions \cup {NoPos} : onMouseDown(pos)
    \/ Idle /\ \E pos \in PointerPositions \cup {NoPos} : onMouseMove(pos)
    \/ Idle /\ onMouseUp
    \/ Idle /\ \E t \in {Pen, Cursor} : setToolActive(t)
    \/ Idle /\ \E ds \in DataTransfers, e \in PointerPositions :
                  \E pos \in {e, NoPos} : onDrop(ds, e, pos)
    \/ Idle /\ \E r \in pendingReads :
                  \E pos \in {r.e, NoPos} : readerOnload(r, pos)
    \/ Idle /\ \E src \in {GallerySrc, NoSrc} :
                  \E pos \in PointerPositions \cup {NoPos} :
                      onMobileDrop(src, pos)
    \/ Idle /\ \E dataUrl \in {PortraitDataUrl, NotAString} :
                  dropImageFromUpload(dataUrl)
    \/ Idle /\ \E i \in 1..Len(shapes) : imageOnload(i)
    \/ Idle /\ \E i \in 1..Len(shapes), pos \in PointerPositions :
                  handleDragEnd(i, pos)
    \/ Idle /\ \E wh \in WindowSizes : onResize(wh[1], wh[2])
    \/ Idle /\ \E t \in ResizeTargets : onResizeStop(t[1], t[2])

Spec == Init /\ [][Next]_vars

(***************************************************************************)
(* The sizing of the modal on its own, over more viewports and more        *)
(* resizes: viewports narrower and lower than the minimum size, and        *)
(* resizes below the minimum and beyond the viewport.                      *)
(***************************************************************************)
ViewportWidths == {200, 360, 680, 880, 1200}

ViewportHeights == {100, 376, 572, 872}

ResizeStops == {0, 100, 280, 300, 600, 5000}

SizingInit ==
    /\ windowW \in ViewportWidths
    /\ windowH \in ViewportHeights
    /\ size = [width |-> baseWidthOf(windowW),
               height |-> baseHeightOf(windowH)]
    /\ shapes = <<>>
    /\ toolActive = Pen
    /\ isDrawing = FALSE
    /\ imgEl = {}
    /\ effectOf = 0
    /\ pendingReads = {}
    /\ session = 0
    /\ sessionPoints = <<>>

SizingNext ==
    \/ \E w \in ViewportWidths, h \in ViewportHeights : onResize(w, h)
    \/ \E newW \in ResizeStops, newH \in ResizeStops :
           onResizeStop(newW, newH)

SizingSpec == SizingInit /\ [][SizingNext]_vars

(***************************************************************************)
(* Properties.                                                             *)
(***************************************************************************)
InUnit(r) == RLe(Num(0), r) /\ RLe(r, Num(1))

StrokeIndices == {i \in 1..Len(shapes) : IsStrokeTool(shapes[i].tool)}

PositionsInUnit ==
    /\ \A i \in StrokeIndices :
           \A k \in 1..Len(shapes[i].points) : InUnit(shapes[i].points[k])
    /\ \A i \in ImageIndices : InUnit(shapes[i].x) /\ InUnit(shapes[i].y)

\* C1: every normalized coordinate a pointer interaction has written to the
\* store (the seed point and the appended points of a stroke, the x/y of a
\* dropped image, the x/y committed at the end of an image drag) lies in
\* [0,1], whatever the raw pointer position.
C1_PointerCoordinatesInUnit == PositionsInUnit

\* C1 witness: a stroke seeded inside the surface whose appended point was
\* clamped to the boundary, beside an image placed from outside the surface.
C1_Witness ==
    /\ \E i \in StrokeIndices :
           /\ Len(shapes[i].points) = 4
           /\ shapes[i].points[1] = Rat(1, 4)
           /\ shapes[i].points[3] = Num(0)
           /\ shapes[i].points[4] = Num(1)
    /\ \E i \in ImageIndices : shapes[i].x = Num(0) /\ shapes[i].y = Num(1)

\* C2 as claimed: in every reachable state every normalized geometry field
\* of every stored shape lies in [0,1], the width and height of every image
\* included.
C2_AllGeometryInUnit ==
    /\ PositionsInUnit
    /\ \A i \in ImageIndices :
           InUnit(shapes[i].width) /\ InUnit(shapes[i].height)

\* C2 as amended: in every reachable state every stroke point and every
\* image x/y lies in [0,1], every image width is the initial 0.25, and every
\* image height is positive; the height the aspect correction writes is not
\* bounded by 1.
C2_PositionsInUnitHeightPositive ==
    /\ PositionsInUnit
    /\ \A i \in ImageIndices :
           /\ shapes[i].width = Rat(1, 4)
           /\ RLt(Num(0), shapes[i].height)

\* C2 witness: an image whose aspect-corrected height exceeds the surface.
C2_Witness ==
    \E i \in ImageIndices :
        /\ RLt(Num(1), shapes[i].height)
        /\ i \in imgEl
        /\ InUnit(shapes[i].x) /\ InUnit(shapes[i].y)
\* What the image layer draws for image i in the current state.
Rendered(i) == RenderImageBase(shapes[i], i \in imgEl, stageW, stageH)

Scaled(points, W, H) ==
    [k \in 1..Len(points) |->
        IF k % 2 = 1 THEN RMul(points[k], Num(W)) ELSE RMul(points[k], Num(H))]

RenderedEqualsStored ==
    /\ \A i \in StrokeIndices :
           ratioForLine(stageW, stageH, shapes[i].points)
               = Scaled(shapes[i].points, stageW, stageH)
    /\ \A i \in ImageIndices :
           /\ Rendered(i).x = RMul(shapes[i].x, Num(stageW))
           /\ Rendered(i).y = RMul(shapes[i].y, Num(stageH))
           /\ Rendered(i).width = RMul(shapes[i].width, Num(stageW))
           /\ shapes[i].height # InitialImageSize =>
                  Rendered(i).height = RMul(shapes[i].height, Num(stageH))

\* C3 as claimed: a resize of the surface leaves the shape store unchanged,
\* and from then on what is rendered for every shape (stroke points, and the
\* position, width and height of every image whose height has been
\* corrected) is its stored normalized geometry times the surface size.
C3_ResizePreservesGeometry ==
    [][ /\ size' # size => shapes' = shapes
        /\ <<size, shapes, imgEl>>' # <<size, shapes, imgEl>> =>
               RenderedEqualsStored' ]_vars

\* C4 as claimed: once the aspect correction has been committed for an image
\* (its stored height is no longer the initial 0.25), no later step commits
\* a height for that image again.
C4_CorrectedOnce ==
    [][ \A i \in ImageIndices :
            shapes[i].height # InitialImageSize =>
                shapes'[i].height = shapes[i].height ]_vars

\* The normalized height (w*W*(ih/iw))/H.
ExpectedHeight(shape, W, H) ==
    RDiv(RMul(RMul(shape.width, Num(W)),
              Rat(naturalSize(shape.src).height, naturalSize(shape.src).width)),
         Num(H))

WithinTolerance(a, b) == RLe(RAbs(RSub(a, b)), Rat(1, 1000))

EffectStep == effectOf # 0 /\ effectOf' = 0

\* C5: when the effect of a loaded image of intrinsic size iw x ih and
\* normalized width w runs on a surface W x H, it commits the height
\* (w*W*(ih/iw))/H unless the stored height is within 0.001 of it, in which
\* case the store is unchanged; and the height it commits is one that a
\* further run on the same store and surface leaves unchanged.
C5_CommittedHeight ==
    [][ EffectStep =>
          LET i == effectOf
              nh == ExpectedHeight(shapes[i], stageW, stageH)
          IN  IF WithinTolerance(nh, shapes[i].height)
              THEN shapes' = shapes
              ELSE /\ shapes' = [shapes EXCEPT ![i].height = nh]
                   /\ WithinTolerance(
                          ExpectedHeight(shapes'[i], stageW', stageH'),
                          shapes'[i].height) ]_vars

\* C5 witness: the 3:2 gallery image of width 0.25 on the 800 x 600 surface
\* holds the height 200*(2/3)/600, and has loaded again since without a
\* recomputation.
C5_Witness ==
    \E i \in ImageIndices :
        /\ stageW = 800 /\ stageH = 600
        /\ shapes[i].src = GallerySrc
        /\ shapes[i].width = Rat(1, 4)
        /\ shapes[i].height = RDiv(RMul(Num(200), Rat(2, 3)), Num(600))
        /\ i \in imgEl
        /\ effectOf = 0

\* clamp(v/D) to [0,1], written out.
Fraction(v, D) ==
    IF v.n < 0 THEN Num(0)
    ELSE IF v.n > D * v.d THEN Num(1)
    ELSE Rat(v.n, v.d * D)

\* The step appends one image of source src at pixel position p, which is
\* rendered, not yet loaded, centered at (x*W, y*H) with size (W/4, H/4).
Placed(src, p) ==
    LET n == Len(shapes) + 1
    IN  /\ shapes' = Append(shapes,
                         [tool |-> "Image", src |-> src,
                          x |-> Fraction(p.x, stageW),
                          y |-> Fraction(p.y, stageH),
                          width |-> Rat(1, 4), height |-> Rat(1, 4)])
        /\ n \notin imgEl'
        /\ LET r == RenderImageBase(shapes'[n], n \in imgEl', stageW', stageH')
           IN  /\ RSub(r.x, r.offsetX) = RSub(RMul(shapes'[n].x, Num(stageW)),
                                              RDiv(r.width, Num(2)))
               /\ RSub(r.y, r.offsetY) = RSub(RMul(shapes'[n].y, Num(stageH)),
                                              RDiv(r.height, Num(2)))
               /\ r.width = Rat(stageW, 4)
               /\ r.height = Rat(stageH, 4)

\* C6: a gallery drag (text drop), a touch drag-end or an upload at surface
\* pixel position p on a surface W x H appends exactly one Image shape with
\* the given source, x = clamp(p.x/W), y = clamp(p.y/H) and size 0.25 x 0.25,
\* rendered before its asset loads centered at (x*W, y*H) with size
\* (0.25*W, 0.25*H).
C6_Placement ==
    [][ Idle /\ Len(shapes') # Len(shapes) =>
        /\ \A src \in Srcs, p \in PointerPositions :
               /\ onMobileDrop(src, p) => Placed(src, p)
               /\ \A f \in Files :
                      onDrop([text |-> src, file |-> f], p, p) => Placed(src, p)
        /\ \A src \in Srcs :
               dropImageFromUpload(src) =>
                   Placed(src, centerPos(stageW, stageH)) ]_vars

\* C6 witness: an image placed at normalized (0.5, 0.5) on the 800 x 600
\* surface, not yet loaded, drawn centered at (400, 300) with size (200, 150).
C6_Witness ==
    \E i \in ImageIndices :
        /\ stageW = 800 /\ stageH = 600
        /\ i \notin imgEl
        /\ shapes[i].x = Rat(1, 2) /\ shapes[i].y = Rat(1, 2)
        /\ Rendered(i).x = Num(400) /\ Rendered(i).y = Num(300)
        /\ Rendered(i).width = Num(200) /\ Rendered(i).height = Num(150)
        /\ Rendered(i).offsetX = Num(100) /\ Rendered(i).offsetY = Num(75)
IsPrefix(a, b) == Len(a) <= Len(b) /\ a = SubSeq(b, 1, Len(a))

\* C7 as claimed: the stroke begun by the session's pointer-down holds the
\* seed point followed by the session's move points in arrival order,
\* whatever other events are interleaved.
C7_StrokeHoldsEveryMove ==
    session # 0 =>
        /\ IsStrokeTool(shapes[session].tool)
        /\ shapes[session].points = sessionPoints

\* C7 as amended: the stroke begun by the session's pointer-down is a single
\* Stroke shape whose point sequence is a prefix of the seed point followed
\* by the session's move points in arrival order, and is that whole sequence
\* as long as the stroke is still the last shape of the store; a move that
\* arrives after another shape has been appended adds no point to it.
C7_StrokeHoldsMovesWhileLast ==
    session # 0 =>
        /\ session \in 1..Len(shapes)
        /\ IsStrokeTool(shapes[session].tool)
        /\ IsPrefix(shapes[session].points, sessionPoints)
        /\ session = Len(shapes) => shapes[session].points = sessionPoints

\* C7 witness: a stroke begun after an image was placed holds its seed
\* point followed by the point of the session's one move.
C7_Witness ==
    /\ session = 2
    /\ shapes[1].tool = "Image"
    /\ Len(shapes[2].points) = 4
    /\ shapes[2].points = sessionPoints

\* C8 as claimed: a pointer-down, pointer-move or drop whose pointer position
\* is unavailable leaves the shape store and the drawing-session flag
\* unchanged.
C8_NoPositionIgnored ==
    [][ ( \/ onMouseDown(NoPos)
          \/ onMouseMove(NoPos)
          \/ \E ds \in DataTransfers, e \in PointerPositions :
                 onDrop(ds, e, NoPos)
          \/ \E r \in pendingReads : readerOnload(r, NoPos)
          \/ \E src \in Srcs : onMobileDrop(src, NoPos) )
        => shapes' = shapes /\ isDrawing' = isDrawing ]_vars


\* C9: the store is append-only: no step shortens it or changes the kind of
\* the shape at an index; a step that lengthens it adds one shape, either a
\* Stroke by a stroke-tool pointer-down or an Image by a placement; and the
\* position and height commits rewrite only indices that hold an Image (a
\* stroke changes in its points alone).
C9_AppendOnly ==
    [][ /\ Len(shapes') >= Len(shapes)
        /\ \A i \in 1..Len(shapes) :
               /\ shapes'[i].tool = shapes[i].tool
               /\ DOMAIN shapes'[i] = DOMAIN shapes[i]
               /\ IsStrokeTool(shapes[i].tool) =>
                      /\ shapes'[i].color = shapes[i].color
                      /\ shapes'[i].stroke = shapes[i].stroke
               /\ shapes'[i] # shapes[i] /\ ~IsStrokeTool(shapes[i].tool) =>
                      /\ shapes[i].tool = "Image"
                      /\ shapes'[i].src = shapes[i].src
                      /\ shapes'[i].width = shapes[i].width
        /\ Len(shapes') > Len(shapes) =>
               /\ Len(shapes') = Len(shapes) + 1
               /\ LET new == shapes'[Len(shapes')]
                  IN  \/ /\ IsStrokeTool(new.tool)
                         /\ new.tool = toolActive
                         /\ \E pos \in PointerPositions : onMouseDown(pos)
                      \/ /\ new.tool = "Image"
                         /\ \/ \E ds \in DataTransfers, e \in PointerPositions :
                                   onDrop(ds, e, e)
                            \/ \E r \in pendingReads : readerOnload(r, r.e)
                            \/ \E src \in Srcs, pos \in PointerPositions :
                                   onMobileDrop(src, pos)
                            \/ \E src \in Srcs : dropImageFromUpload(src) ]_vars

\* C9 witness: a stroke at index 1 and, appended after it, an image whose
\* position and height have been rewritten in place.
C9_Witness ==
    /\ Len(shapes) = 2
    /\ IsStrokeTool(shapes[1].tool)
    /\ shapes[2].tool = "Image"
    /\ shapes[2].height # InitialImageSize
    /\ shapes[2].x = Num(0)
    /\ shapes[2].src = PortraitDataUrl

ImageAt(src, p, W, H) ==
    [tool |-> "Image", src |-> src, x |-> Fraction(p.x, W),
     y |-> Fraction(p.y, H), width |-> Rat(1, 4), height |-> Rat(1, 4)]

\* C10: a native drop whose plain-text payload is not empty places one image
\* with that text as source and reads no file; otherwise a first file of an
\* image/ MIME type is read and, once read, places one image with its data
\* URL; every other drop (no data transfer, empty text and no file, a first
\* file that is not an image) and a touch drag-end without a source leave
\* the shape store unchanged.
C10_DropDispatch ==
    [][ Idle /\ (pendingReads' # pendingReads \/ Len(shapes') # Len(shapes)) =>
        /\ \A ds \in DataTransfers, e \in PointerPositions :
               onDrop(ds, e, e) =>
                   IF ds # NoDataTransfer /\ ds.text # ""
                   THEN /\ shapes' = Append(shapes,
                                         ImageAt(ds.text, e, stageW, stageH))
                        /\ pendingReads' = pendingReads
                   ELSE IF /\ ds # NoDataTransfer
                           /\ ds.file # NoFile
                           /\ ds.file.type[1] = "image"
                   THEN /\ shapes' = shapes
                        /\ \E r \in pendingReads' :
                               /\ r.result = ds.file.result
                               /\ pendingReads' = pendingReads \cup {r}
                   ELSE shapes' = shapes /\ pendingReads' = pendingReads
        /\ \A r \in pendingReads :
               readerOnload(r, r.e) =>
                   /\ Len(shapes') = Len(shapes) + 1
                   /\ SubSeq(shapes', 1, Len(shapes)) = shapes
                   /\ shapes'[Len(shapes')].tool = "Image"
                   /\ shapes'[Len(shapes')].src = r.result
                   /\ pendingReads' = pendingReads \ {r}
        /\ \A p \in PointerPositions \cup {NoPos} :
               onMobileDrop(NoSrc, p) => shapes' = shapes ]_vars

\* C10 witness: a text drop has placed the gallery image, and an image file
\* dropped since is being read.
C10_Witness ==
    /\ \E i \in ImageIndices : shapes[i].src = GallerySrc
    /\ \E r \in pendingReads : r.result = PortraitDataUrl

\* C11: after any sequence of viewport changes (each with its size-clamping
\* effect) and user resizes, 280 <= width <= max(280, viewportW - 80) and
\* 240 <= height <= max(240, viewportH - 136), and neither the surface width
\* nor the surface height (height - 136, floored at 0), the divisors of the
\* normalization, is zero.
C11_SizeWithinBounds ==
    /\ 280 <= size.width
    /\ size.width <= IMax(280, windowW - 80)
    /\ 240 <= size.height
    /\ size.height <= IMax(240, windowH - 136)
    /\ stageW = size.width /\ stageW # 0
    /\ stageH = IMax(0, size.height - 136) /\ stageH # 0

\* C11 witness: on a viewport with room to spare, the modal stands at its
\* minimum size after being sized below it, with a 280 x 104 surface.
C11_Witness ==
    /\ windowW = 1200 /\ windowH = 872
    /\ size = [width |-> 280, height |-> 240]
    /\ stageW = 280 /\ stageH = 104

\* A step in which a stored stroke's points change: the only change a
\* pointer-move makes to the store.
StrokeGrew ==
    \E i \in StrokeIndices :
        i <= Len(shapes') /\ shapes'[i].points # shapes[i].points

\* A step that appends a stroke.
StrokeBegun ==
    /\ Len(shapes') > Len(shapes)
    /\ IsStrokeTool(shapes'[Len(shapes')].tool)

\* C12: a pointer-move changes the store only while the drawing session is
\* open; the session opens only at a pointer-down under a stroke tool and
\* closes at the pointer-up, and only there; a stroke is appended only by a
\* pointer-down under a stroke tool, so a pointer-down under the cursor tool
\* appends nothing and opens no session.
C12_MovesOnlyInSession ==
    [][ /\ StrokeGrew => isDrawing
        /\ StrokeBegun => IsStrokeTool(toolActive) /\ isDrawing'
        /\ (isDrawing' /\ ~isDrawing) =>
               /\ IsStrokeTool(toolActive)
               /\ \E pos \in PointerPositions \cup {NoPos} : onMouseDown(pos)
        /\ (isDrawing /\ ~isDrawing') => onMouseUp
        /\ (isDrawing /\ isDrawing') => ~onMouseUp
      ]_vars

\* C12 witness: under the cursor tool and with no session open, the store
\* holds a stroke that a closed session seeded and a move extended.
C12_Witness ==
    /\ toolActive = Cursor
    /\ ~isDrawing
    /\ \E i \in StrokeIndices : Len(shapes[i].points) = 4

\* C13 as claimed: when the read of a dropped image file completes, the
\* placement appends exactly one image whose normalized position is the
\* drop's pixel position divided by the surface width and height in effect
\* at that moment, whatever happened between the drop and the completion.
C13_DelayedPlacementUsesCurrentSurface ==
    [][ Idle /\ pendingReads' # pendingReads /\ Len(shapes') # Len(shapes) =>
        \E r \in pendingReads \ pendingReads' :
            shapes' = Append(shapes, ImageAt(r.result, r.e, stageW, stageH))
      ]_vars
=============================================================================
